---------------------------- MODULE Spec2Model ----------------------------
(***************************************************************************)
(* A model of the data-preparation utilities of custom-vision-pi:          *)
(*   - funcs/ExtractFrames/__init__.py   (frame-extraction function)       *)
(*   - tools/cvat_to_dataset.py          (CVAT XML + clips -> dataset zip) *)
(*   - cognitive/custom_vision.py        (project / tag / batch helpers)   *)
(*   - cognitive/dataset_to_cognitive.py (dataset zip -> Custom Vision)    *)
(*                                                                         *)
(* Python strings that the code concatenates or splits are modelled as     *)
(* sequences of one-character strings, so that formatting ("{a}_{b}") and  *)
(* os.path.splitext are computed character by character.  Python dicts are *)
(* modelled as sequences of [k, v] pairs with pairwise distinct keys, in   *)
(* insertion order.  Pixel coordinates (Python floats) are fixed-point     *)
(* integers counting half pixels.                                          *)
(***************************************************************************)
EXTENDS Integers, Sequences, FiniteSets, TLC

VARIABLES
    \* ---- ExtractFrames/__init__.py: one invocation of main ----
    xpc,               \* position inside main
    blob_uri_path,     \* urlparse(blob_uri).path of the triggering event
    input_blob_name,   \* blob name returned by get_blob_from_uri
    tool_exit,         \* exit status of the external tool (subprocess.call)
    frames_folder,     \* os.listdir(frames_folder): frame files, in listing order
    zipped_frames,     \* entries written to the scratch archive, in order
    blob_store,        \* names of the objects in container "extractedframes"
    blob_uploads       \* upload_blob calls made by this invocation, in order

xvars == <<xpc, blob_uri_path, input_blob_name, tool_exit, frames_folder,
           zipped_frames, blob_store, blob_uploads>>

VARIABLES
    \* ---- tools/cvat_to_dataset.py: one run of process_labels_batch ----
    dpc,                 \* position inside process_labels_batch
    clip_files,          \* os.listdir(clips_folder), in listing order
    max_clip_frames,     \* the --max-frames argument
    clip_index,          \* number of clip files the loop has taken
    current_clip_labels, \* dict returned by get_single_clip_labels
    current_clip_labels_filtered, \* dict returned by filter_labels
    output_archive,      \* image entries of the output zip, in write order
    clip_batch_labels,   \* aggregated dict
    labels_json          \* <<>> until store_labels ran, then <<stored dict>>

dvars == <<dpc, clip_files, max_clip_frames, clip_index, current_clip_labels,
           current_clip_labels_filtered, output_archive, clip_batch_labels,
           labels_json>>

VARIABLES
    \* ---- cognitive/dataset_to_cognitive.py, custom_vision.py: upload runs ----
    upc,             \* position inside main / upload_dataset
    run,             \* number of the current invocation of the uploader
    mode,            \* --type: "detection" or "classification"
    environ,         \* names of the environment variables that are set
    labels_defs,     \* json.load(labels_file)["labels"]
    labels,          \* labels.json of the dataset archive (a dict)
    remote_projects, \* projects of the training service, [id, name, domain]
    remote_tags,     \* tags of the training service, [project, id, name, type]
    trainer_calls,   \* calls made on self.trainer, the run's client, in order
    project,         \* self.project: <<>> until resolved, then <<project>>
    tags,            \* tags of upload_dataset (a dict name -> Tag)
    yielded,         \* entries the generator images_for_upload has yielded
    image_batch,     \* image_batch of the current loop iteration
    uploaded         \* return values of upload_batch in this run, in order

uvars == <<upc, run, mode, environ, labels_defs, labels, remote_projects,
           remote_tags, trainer_calls, project, tags, yielded, image_batch,
           uploaded>>

VARIABLES
    \* ---- get_images_for_upload, frame by frame ----
    gpc,             \* "next", "done" (exhausted) or "raised"
    g_mode,          \* which client's generator
    g_labels,        \* its labels argument
    g_tags,          \* its tags argument
    g_file,          \* number of file names of images already processed
    g_boxes,         \* boxes of the frame processed last
    g_entries        \* entries yielded so far, in order

gvars == <<gpc, g_mode, g_labels, g_tags, g_file, g_boxes, g_entries>>

vars == <<xvars, dvars, uvars, gvars>>

-----------------------------------------------------------------------------
(* Generic helpers (Python built-ins used throughout the sources).         *)

Min(a, b) == IF a <= b THEN a ELSE b

Range(s) == {s[i] : i \in 1..Len(s)}

\* All sequences over S of length 0..n.
SeqsUpTo(S, n) == UNION {[1..k -> S] : k \in 0..n}

\* str.rfind(c), 1-based; 0 when c does not occur (Python's -1).
RFind(s, c) ==
    LET hits == {i \in 1..Len(s) : s[i] = c}
    IN  IF hits = {} THEN 0 ELSE CHOOSE i \in hits : \A j \in hits : j <= i

\* str.find(c), 1-based; 0 when c does not occur.
Find(s, c) ==
    LET hits == {i \in 1..Len(s) : s[i] = c}
    IN  IF hits = {} THEN 0 ELSE CHOOSE i \in hits : \A j \in hits : i <= j


-----------------------------------------------------------------------------
(* funcs/ExtractFrames/__init__.py                                         *)

StrZip == <<".", "z", "i", "p">>
OutputContainer == <<"e", "x", "t", "r", "a", "c", "t", "e", "d", "f", "r", "a", "m", "e", "s">>

\* Longest blob name, largest number of frame files the tool may leave.
MaxBlobNameLen == 4
MaxToolFrames == 2

BlobChars == {"v", ".", "/"}
BlobNames == SeqsUpTo(BlobChars, MaxBlobNameLen) \ {<<>>}

\* URL paths of the triggering event: "/c/<blob name>", and "/c" (no blob part).
UrlPaths == {<<"/", "c">>} \cup {<<"/", "c", "/">> \o n : n \in BlobNames}

\* path[1:].split("/", 1): [ok |-> FALSE] when the split does not give two
\* parts (the tuple unpacking raises ValueError).
get_blob_from_uri(path) ==
    LET rest == SubSeq(path, 2, Len(path))
        cut  == Find(rest, "/")
    IN  IF cut = 0
        THEN [ok |-> FALSE, container |-> <<>>, blob |-> <<>>]
        ELSE [ok |-> TRUE,
              container |-> SubSeq(rest, 1, cut - 1),
              blob |-> SubSeq(rest, cut + 1, Len(rest))]

\* posixpath.splitext(p): <<root, ext>>.  The extension starts at the last
\* dot of the last path component, unless only dots precede it there.
splitext(p) ==
    LET sepIndex == RFind(p, "/")
        dotIndex == RFind(p, ".")
    IN  IF dotIndex > sepIndex
           /\ \E i \in (sepIndex + 1)..(dotIndex - 1) : p[i] # "."
        THEN <<SubSeq(p, 1, dotIndex - 1), SubSeq(p, dotIndex, Len(p))>>
        ELSE <<p, <<>>>>

\* output_blob_name of main.
OutputBlobName(blob_name) == splitext(blob_name)[1] \o StrZip

\* zip_frames without the test of line 39.
zip_frames_unchecked(frame_files) == [raised |-> FALSE, entries |-> frame_files]

\* zip_frames on the listing frame_files: raises when the listing is empty,
\* otherwise writes every file, in listing order, under its own name.
zip_frames(frame_files) ==
    IF Len(frame_files) = 0
    THEN [raised |-> TRUE, entries |-> <<>>]
    ELSE [raised |-> FALSE, entries |-> frame_files]

\* The overwrite argument of output_blob.upload_blob.
UploadOverwrite == TRUE

\* BlobClient.upload_blob: fails (ResourceExistsError) when the object exists
\* and overwrite is not set.
upload_blob_ok(store, name, overwrite) == overwrite \/ name \notin store

\* Frame files "frame%06d.jpg" are identified by their number.
FrameListings == {f \in SeqsUpTo(1..MaxToolFrames, MaxToolFrames) :
                    /\ Range(f) = 1..Len(f)}

XInit ==
    /\ xpc = "start"
    /\ blob_uri_path \in UrlPaths
    /\ input_blob_name = <<>>
    /\ tool_exit = 0
    /\ frames_folder = <<>>
    /\ zipped_frames = <<>>
    /\ blob_store \in {{}, {r \o StrZip : r \in BlobNames \cup {<<>>}}}
    /\ blob_uploads = <<>>

\* main, lines 50-61: resolve the blob of the event and download it.
ResolveBlob ==
    /\ xpc = "start"
    /\ LET r == get_blob_from_uri(blob_uri_path)
       IN  /\ xpc' = IF r.ok THEN "extract" ELSE "raised ValueError"
           /\ input_blob_name' = r.blob
    /\ UNCHANGED <<blob_uri_path, tool_exit, frames_folder, zipped_frames,
                   blob_store, blob_uploads>>

\* extract_frames: the tool leaves any number of frame files and returns any
\* exit status; subprocess.call's return value is dropped.
ExtractFrames ==
    /\ xpc = "extract"
    /\ \E listing \in FrameListings, status \in {0, 1} :
          /\ frames_folder' = listing
          /\ tool_exit' = status
    /\ xpc' = "zip"
    /\ UNCHANGED <<blob_uri_path, input_blob_name, zipped_frames, blob_store,
                   blob_uploads>>

\* zip_frames(output_file, frames_folder), main line 74.
ZipFrames ==
    /\ xpc = "zip"
    /\ LET z == zip_frames(frames_folder)
       IN  /\ zipped_frames' = z.entries
           /\ xpc' = IF z.raised THEN "raised no frame files" ELSE "upload"
    /\ UNCHANGED <<blob_uri_path, input_blob_name, tool_exit, frames_folder,
                   blob_store, blob_uploads>>

\* main, lines 76-87: upload the archive.
UploadArchive ==
    /\ xpc = "upload"
    /\ LET name == OutputBlobName(input_blob_name)
       IN  IF upload_blob_ok(blob_store, name, UploadOverwrite)
           THEN /\ blob_uploads' = Append(blob_uploads,
                        [container |-> OutputContainer, blob |-> name,
                         overwrite |-> UploadOverwrite, data |-> zipped_frames])
                /\ blob_store' = blob_store \cup {name}
                /\ xpc' = "done"
           ELSE /\ xpc' = "raised ResourceExistsError"
                /\ UNCHANGED <<blob_uploads, blob_store>>
    /\ UNCHANGED <<blob_uri_path, input_blob_name, tool_exit, frames_folder,
                   zipped_frames>>


-----------------------------------------------------------------------------
(* Python dicts: sequences of [k, v] with distinct keys, insertion order.  *)

DictKeys(d) == [i \in 1..Len(d) |-> d[i].k]

DictKeySet(d) == {d[i].k : i \in 1..Len(d)}

DictHas(d, key) == \E i \in 1..Len(d) : d[i].k = key

DictGet(d, key) == d[CHOOSE i \in 1..Len(d) : d[i].k = key].v

DictValues(d) == [i \in 1..Len(d) |-> d[i].v]

\* d[key] = val: an existing key keeps its position.
DictSet(d, key, val) ==
    IF DictHas(d, key)
    THEN [i \in 1..Len(d) |-> IF d[i].k = key THEN [k |-> key, v |-> val] ELSE d[i]]
    ELSE Append(d, [k |-> key, v |-> val])

\* del d[key] for every key of gone.
DictDel(d, gone) ==
    LET keep(e) == e.k \notin gone
    IN  SelectSeq(d, keep)

RECURSIVE DictUpdate(_, _)
\* d.update(e)
DictUpdate(d, e) ==
    IF e = <<>> THEN d
    ELSE DictUpdate(DictSet(d, Head(e).k, Head(e).v), Tail(e))

-----------------------------------------------------------------------------
(* tools/cvat_to_dataset.py                                                *)

\* Largest number of clips, of image elements per XML file, of shapes per
\* image element, and largest --max-frames value.
MaxClips == 2
MaxImages == 2
MaxShapes == 1
MaxCap == 1

\* f"{clip_name}_{frame_name}"
FrameKey(clip_name, frame_name) == clip_name \o <<"_">> \o frame_name

\* The label dict built from one shape element (lines 21-38).  points is
\* <<>> for Python's None and <<dict>> otherwise.
MakeLabel(shape) ==
    [label      |-> shape.label,
     type       |-> shape.tag,
     occluded   |-> shape.occluded = 1,
     points     |-> IF shape.tag = "box"
                    THEN <<[x      |-> shape.xtl,
                            y      |-> shape.ytl,
                            width  |-> shape.xbr - shape.xtl,
                            height |-> shape.ybr - shape.ytl]>>
                    ELSE <<>>,
     properties |-> DictUpdate(<<>>, [i \in 1..Len(shape.attributes) |->
                        [k |-> shape.attributes[i].name,
                         v |-> shape.attributes[i].text]])]

\* The assertion of line 40 compiled away.
PointsNotAsserted(label) == TRUE

\* assert current_label["points"] is not None
PointsAsserted(label) == label.points # <<>>

RECURSIVE ClipLabelsFrom(_, _, _)
\* The loop over root.findall("image"), with labels_all so far: the
\* assertion aborts the whole call at the first shape that fails it.
ClipLabelsFrom(clip_name, images, labels_all) ==
    IF images = <<>> THEN [ok |-> TRUE, labels |-> labels_all]
    ELSE LET image == Head(images)
             labels_image == [i \in 1..Len(image.shapes) |-> MakeLabel(image.shapes[i])]
         IN  IF \E i \in 1..Len(labels_image) : ~PointsAsserted(labels_image[i])
             THEN [ok |-> FALSE, labels |-> <<>>]
             ELSE ClipLabelsFrom(clip_name, Tail(images),
                    IF Len(labels_image) > 0
                    THEN DictSet(labels_all, FrameKey(clip_name, image.name),
                                 [clip   |-> clip_name,
                                  frame  |-> image.name,
                                  width  |-> image.width,
                                  height |-> image.height,
                                  labels |-> labels_image])
                    ELSE labels_all)

\* get_single_clip_labels(clip_name, label_path), on the parsed XML.
get_single_clip_labels(clip_name, xml) == ClipLabelsFrom(clip_name, xml, <<>>)

\* random.sample drawing one frame fewer than asked for.
Samples_one_short(frames, k) == {kept \in SUBSET frames : Cardinality(kept) = k - 1}

\* random.sample(frames, k): every k-element subset may be drawn.
Samples(frames, k) == {kept \in SUBSET frames : Cardinality(kept) = k}

\* filter_labels pruning a copy: the argument keeps every frame.
filter_labels_on_copy(lbls, cap) ==
    IF cap <= 0 THEN {[arg |-> lbls, result |-> lbls]}
    ELSE IF Len(lbls) <= cap THEN {[arg |-> lbls, result |-> lbls]}
    ELSE {[arg |-> lbls, result |-> DictDel(lbls, DictKeySet(lbls) \ kept)] :
            kept \in Samples(DictKeySet(lbls), cap)}

\* filter_labels(labels, max_clip_frames): the possible outcomes, each the
\* dict the argument refers to after the call (arg) and the dict returned
\* (result).  "del labels[frame]" works on the argument itself, which is
\* also what is returned.
filter_labels(lbls, cap) ==
    IF cap <= 0 THEN {[arg |-> lbls, result |-> lbls]}
    ELSE IF Len(lbls) <= cap THEN {[arg |-> lbls, result |-> lbls]}
    ELSE {LET pruned == DictDel(lbls, DictKeySet(lbls) \ kept)
          IN  [arg |-> pruned, result |-> pruned] :
            kept \in Samples(DictKeySet(lbls), cap)}

\* copy_labelled_frames: [ok, entries]; the entries appended to the output
\* archive, one per key in dict order.  Writing a frame file that the clip
\* archive does not hold raises.
copy_labelled_frames(clip, lbls) ==
    [ok      |-> \A i \in 1..Len(lbls) : lbls[i].v.frame \in clip.frames,
     entries |-> [i \in 1..Len(lbls) |->
                    [arcname |-> lbls[i].k,
                     clip    |-> clip.name,
                     file    |-> lbls[i].v.frame]]]

\* clip_name of the loop body: os.path.splitext(clip_file_name)[0]
ClipName(clip_file_name) == splitext(clip_file_name)[1]

ClipStems == {<<"a">>, <<"a", "_", "b">>}
FrameNames == {<<"c">>, <<"b", "_", "c">>}

BoxShape ==
    [tag |-> "box", label |-> "pot", occluded |-> 0,
     xtl |-> 20, ytl |-> 40, xbr |-> 121, ybr |-> 90,
     attributes |-> <<[name |-> "state", text |-> "full"]>>]
OccludedBoxShape ==
    [tag |-> "box", label |-> "lid", occluded |-> 1,
     xtl |-> 0, ytl |-> 0, xbr |-> 64, ybr |-> 48,
     attributes |-> <<>>]
PolygonShape ==
    [tag |-> "polygon", label |-> "pot", occluded |-> 0,
     xtl |-> 0, ytl |-> 0, xbr |-> 0, ybr |-> 0,
     attributes |-> <<>>]
ShapeKinds == {BoxShape, OccludedBoxShape, PolygonShape}

XmlImages ==
    [name : FrameNames, width : {640}, height : {480},
     shapes : SeqsUpTo(ShapeKinds, MaxShapes)]
XmlFiles == SeqsUpTo(XmlImages, MaxImages)

\* A clip file with the XML file of the same stem and the frame files the
\* clip archive holds.
ClipFiles ==
    [name : {c \o StrZip : c \in ClipStems},
     xml : XmlFiles,
     frames : {FrameNames, FrameNames \ {<<"c">>}}]

ClipListings ==
    {l \in SeqsUpTo(ClipFiles, MaxClips) :
        \A i, j \in 1..Len(l) : i # j => l[i].name # l[j].name}

DInit ==
    /\ dpc = "loop"
    /\ clip_files \in ClipListings
    /\ max_clip_frames \in -1..MaxCap
    /\ clip_index = 0
    /\ current_clip_labels = <<>>
    /\ current_clip_labels_filtered = <<>>
    /\ output_archive = <<>>
    /\ clip_batch_labels = <<>>
    /\ labels_json = <<>>

\* Lines 110-117: next clip file, get_single_clip_labels.
GetClipLabels ==
    /\ dpc = "loop"
    /\ clip_index < Len(clip_files)
    /\ clip_index' = clip_index + 1
    /\ LET clip == clip_files[clip_index + 1]
           r == get_single_clip_labels(ClipName(clip.name), clip.xml)
       IN  /\ dpc' = IF r.ok THEN "filter" ELSE "raised AssertionError"
           /\ current_clip_labels' = r.labels
    /\ UNCHANGED <<clip_files, max_clip_frames, current_clip_labels_filtered,
                   output_archive, clip_batch_labels, labels_json>>

\* Line 121: filter_labels(current_clip_labels, max_clip_frames).
FilterLabels ==
    /\ dpc = "filter"
    /\ \E r \in filter_labels(current_clip_labels, max_clip_frames) :
          /\ current_clip_labels' = r.arg
          /\ current_clip_labels_filtered' = r.result
    /\ dpc' = "copy"
    /\ UNCHANGED <<clip_files, max_clip_frames, clip_index, output_archive,
                   clip_batch_labels, labels_json>>

\* Lines 123-125: copy_labelled_frames with the filtered dict, then
\* clip_batch_labels.update(current_clip_labels).
CopyLabelledFrames ==
    /\ dpc = "copy"
    /\ LET r == copy_labelled_frames(clip_files[clip_index], current_clip_labels_filtered)
       IN  IF r.ok
           THEN /\ output_archive' = output_archive \o r.entries
                /\ clip_batch_labels' = DictUpdate(clip_batch_labels, current_clip_labels)
                /\ dpc' = "loop"
           ELSE /\ dpc' = "raised FileNotFoundError"
                /\ UNCHANGED <<output_archive, clip_batch_labels>>
    /\ UNCHANGED <<clip_files, max_clip_frames, clip_index, current_clip_labels,
                   current_clip_labels_filtered, labels_json>>

\* Line 127: store_labels, once the listing is exhausted.
StoreLabels ==
    /\ dpc = "loop"
    /\ clip_index = Len(clip_files)
    /\ labels_json' = <<clip_batch_labels>>
    /\ dpc' = "done"
    /\ UNCHANGED <<clip_files, max_clip_frames, clip_index, current_clip_labels,
                   current_clip_labels_filtered, output_archive, clip_batch_labels>>

-----------------------------------------------------------------------------
(* cognitive/dataset_to_cognitive.py: conversion to upload entries         *)

\* Largest number of frames and of labels per frame in the datasets whose
\* conversion is explored frame by frame.
MaxDatasetFrames == 2
MaxLabels == 2

PotTag == "pot"

RECURSIVE IntToStr(_)
\* str(n) for n >= 0, in decimal.
IntToStr(n) ==
    LET digit == <<"0", "1", "2", "3", "4", "5", "6", "7", "8", "9">>[(n % 10) + 1]
    IN  IF n < 10 THEN <<digit>> ELSE Append(IntToStr(n \div 10), digit)

\* Only the first "continue" test: shapes of any type pass.
LabelSkipped_any_type(label, allowed_tags) == label.label \notin Range(allowed_tags)

\* The two "continue" tests of get_image_boxes_with_attributes (lines 57-62).
LabelSkipped(label, allowed_tags) ==
    \/ label.label \notin Range(allowed_tags)
    \/ label.type # "box"

\* Lines 69-91: the box of one label.  Coordinates count half pixels, so a
\* normalised value x / image_width is the fraction x / (2 * image_width),
\* kept as [num, den]; int(x) truncates the half.
BoxOf(image_labels, label, normalize) ==
    LET points == label.points[1]
    IN  [tag    |-> label.label,
         left   |-> IF normalize THEN [num |-> points.x, den |-> 2 * image_labels.width]
                    ELSE points.x \div 2,
         top    |-> IF normalize THEN [num |-> points.y, den |-> 2 * image_labels.height]
                    ELSE points.y \div 2,
         width  |-> IF normalize THEN [num |-> points.width, den |-> 2 * image_labels.width]
                    ELSE points.width \div 2,
         height |-> IF normalize THEN [num |-> points.height, den |-> 2 * image_labels.height]
                    ELSE points.height \div 2,
         properties |-> DictValues(label.properties)]

\* get_image_boxes_with_attributes(image_labels, allowed_tags, normalize);
\* an occluded label falls through the "pass" of line 67.
get_image_boxes_with_attributes(image_labels, allowed_tags, normalize) ==
    LET kept(label) == ~LabelSkipped(label, allowed_tags)
        selected == SelectSeq(image_labels.labels, kept)
    IN  [i \in 1..Len(selected) |-> BoxOf(image_labels, selected[i], normalize)]

\* ObjectDetectionClient.boxes_to_regions
boxes_to_regions(boxes, tgs) ==
    [i \in 1..Len(boxes) |->
        [tag_id |-> DictGet(tgs, boxes[i].tag).id,
         left   |-> boxes[i].left,
         top    |-> boxes[i].top,
         width  |-> boxes[i].width,
         height |-> boxes[i].height]]

\* ClassificationClient.box_to_subimage: the cropped area stands for the
\* PNG bytes of the sub-image.
box_to_subimage(box, file_name) ==
    [file |-> file_name,
     area |-> <<box.left, box.top, box.width + box.left, box.height + box.top>>]

\* unique_file_name of line 221
UniqueFileName(file_name, box_n) == file_name \o <<"_">> \o IntToStr(box_n)

\* Line 157 without its test: every frame is yielded.
FrameYields_always(regions) == TRUE

\* The test of line 157: "We don't need pictures without any labels."
FrameYields(regions) == Len(regions) > 0

\* Body of the loop of ObjectDetectionClient.get_images_for_upload for one
\* file name: [entries, raised].  tags[box["tag"]] of line 140 raises
\* KeyError for a box whose tag is no key of tags.
DetectionFrame(file_name, image_labels, tgs) ==
    LET boxes == get_image_boxes_with_attributes(image_labels, DictKeys(tgs), TRUE)
    IN  IF \E i \in 1..Len(boxes) : ~DictHas(tgs, boxes[i].tag)
        THEN [raised |-> TRUE, entries |-> <<>>]
        ELSE LET regions == boxes_to_regions(boxes, tgs)
             IN  [raised  |-> FALSE,
                  entries |-> IF FrameYields(regions)
                              THEN <<[name     |-> file_name,
                                      contents |-> [file |-> file_name, area |-> <<>>],
                                      regions  |-> regions,
                                      tag_ids  |-> <<>>]>>
                              ELSE <<>>]

RECURSIVE ClassificationBoxes(_, _, _, _)
\* The loop "for box_n, box in enumerate(boxes)" from position box_n + 1 on:
\* a property that is no key of tags raises KeyError at its box.
ClassificationBoxes(file_name, boxes, box_n, tgs) ==
    IF box_n >= Len(boxes) THEN [raised |-> FALSE, entries |-> <<>>]
    ELSE LET box == boxes[box_n + 1]
             rest == ClassificationBoxes(file_name, boxes, box_n + 1, tgs)
         IN  IF Len(box.properties) = 0 THEN rest
             ELSE IF \E i \in 1..Len(box.properties) : ~DictHas(tgs, box.properties[i])
             THEN [raised |-> TRUE, entries |-> <<>>]
             ELSE [raised  |-> rest.raised,
                   entries |-> <<[name     |-> UniqueFileName(file_name, box_n),
                                  contents |-> box_to_subimage(box, file_name),
                                  regions  |-> <<>>,
                                  tag_ids  |-> [i \in 1..Len(box.properties) |->
                                                  DictGet(tgs, box.properties[i]).id]]>>
                               \o rest.entries]

\* Body of the loop of ClassificationClient.get_images_for_upload for one
\* file name.
ClassificationFrame(file_name, image_labels, tgs) ==
    ClassificationBoxes(file_name,
        get_image_boxes_with_attributes(image_labels, <<PotTag>>, FALSE), 0, tgs)

FrameEntries(md, file_name, image_labels, tgs) ==
    IF md = "detection" THEN DetectionFrame(file_name, image_labels, tgs)
    ELSE ClassificationFrame(file_name, image_labels, tgs)

RECURSIVE ConcatRange(_, _, _)
\* ss[lo] \o ... \o ss[hi], split in halves.
ConcatRange(ss, lo, hi) ==
    IF lo > hi THEN <<>>
    ELSE IF lo = hi THEN ss[lo]
    ELSE LET mid == (lo + hi) \div 2
         IN  ConcatRange(ss, lo, mid) \o ConcatRange(ss, mid + 1, hi)

\* get_images_for_upload run to its end: everything it yields, file name by
\* file name in dict order, and whether it ends by raising (at the first
\* file name whose loop body raises).
get_images_for_upload(md, lbls, tgs) ==
    LET per  == [i \in 1..Len(lbls) |-> FrameEntries(md, lbls[i].k, lbls[i].v, tgs)]
        bad  == {i \in 1..Len(lbls) : per[i].raised}
        stop == IF bad = {} THEN Len(lbls)
                ELSE CHOOSE i \in bad : \A j \in bad : i <= j
    IN  [raised  |-> bad # {},
         entries |-> ConcatRange([i \in 1..stop |-> per[i].entries], 1, stop)]

\* ---- inputs: Label Records, Frame Records, tag dicts ----

LabelRecord(name, type, occluded, x, props) ==
    [label |-> name, type |-> type, occluded |-> occluded,
     points |-> <<[x |-> x, y |-> 2 * x + 1, width |-> 41, height |-> 30]>>,
     properties |-> props]

StateProp(value) == <<[k |-> "state", v |-> value]>>

LabelKinds ==
    {LabelRecord("pot", "box", FALSE, 21, StateProp("full")),
     LabelRecord("pot", "box", FALSE, 33, <<>>),
     LabelRecord("pot", "box", TRUE, 45, StateProp("empty")),
     LabelRecord("pot", "polygon", FALSE, 57, StateProp("full")),
     LabelRecord("lid", "box", FALSE, 69, StateProp("full")),
     LabelRecord("pot", "box", FALSE, 81, StateProp("rare"))}

FrameRecords ==
    [clip : {<<"a">>}, frame : {<<"c">>}, width : {640}, height : {480},
     labels : SeqsUpTo(LabelKinds, MaxLabels)]

FileNames == {<<"a">>, <<"a", "_", "0">>, <<"a", "_", "1">>}

\* labels.json contents: dicts from file names to Frame Records.
Datasets ==
    {d \in SeqsUpTo([k : FileNames, v : FrameRecords], MaxDatasetFrames) :
        \A i, j \in 1..Len(d) : i # j => d[i].k # d[j].k}

TagOf(id, name) ==
    [id |-> id, name |-> name, type |-> IF name = "?" THEN "Negative" ELSE "Regular"]

TagDict(names) == [i \in 1..Len(names) |-> [k |-> names[i], v |-> TagOf(i, names[i])]]

\* Tag dicts populate_tags can return: detection always holds "pot", and any
\* other tag the project already had; classification holds the attribute
\* values of the label definitions and the project's tags.
DetectionTagDicts == {TagDict(<<"pot">>), TagDict(<<"lid", "pot">>)}
ClassificationTagDicts == {TagDict(<<"full", "empty", "?">>), TagDict(<<>>)}

GInit ==
    /\ gpc = "next"
    /\ g_mode \in {"detection", "classification"}
    /\ g_labels \in Datasets
    /\ g_tags \in IF g_mode = "detection" THEN DetectionTagDicts
                  ELSE ClassificationTagDicts
    /\ g_file = 0
    /\ g_boxes = <<>>
    /\ g_entries = <<>>

\* One iteration of "for file_name in images" of the detection generator;
\* a KeyError ends the generator.
DetectionNextFrame ==
    /\ gpc = "next"
    /\ g_mode = "detection"
    /\ g_file < Len(g_labels)
    /\ LET file_name == g_labels[g_file + 1].k
           f == DetectionFrame(file_name, g_labels[g_file + 1].v, g_tags)
       IN  /\ g_boxes' = get_image_boxes_with_attributes(
                            g_labels[g_file + 1].v, DictKeys(g_tags), TRUE)
           /\ g_entries' = g_entries \o f.entries
           /\ gpc' = IF f.raised THEN "raised" ELSE "next"
    /\ g_file' = g_file + 1
    /\ UNCHANGED <<g_mode, g_labels, g_tags>>

\* One iteration of "for file_name in images" of the classification
\* generator; a KeyError ends the generator.
ClassificationNextFrame ==
    /\ gpc = "next"
    /\ g_mode = "classification"
    /\ g_file < Len(g_labels)
    /\ LET file_name == g_labels[g_file + 1].k
           f == ClassificationFrame(file_name, g_labels[g_file + 1].v, g_tags)
       IN  /\ g_boxes' = get_image_boxes_with_attributes(
                            g_labels[g_file + 1].v, <<PotTag>>, FALSE)
           /\ g_entries' = g_entries \o f.entries
           /\ gpc' = IF f.raised THEN "raised" ELSE "next"
    /\ g_file' = g_file + 1
    /\ UNCHANGED <<g_mode, g_labels, g_tags>>

\* The list of file names is exhausted: the generator returns.
GeneratorExhausted ==
    /\ gpc = "next"
    /\ g_file = Len(g_labels)
    /\ gpc' = "done"
    /\ UNCHANGED <<g_mode, g_labels, g_tags, g_file, g_boxes, g_entries>>

-----------------------------------------------------------------------------
(* cognitive/custom_vision.py and the upload run of dataset_to_cognitive   *)

\* Frames of the largest dataset uploaded, and invocations of the uploader.
MaxFrames == 130
MaxRuns == 2

\* islice(images_for_upload, 64)
BatchSize == 64

TRAINING_ENDPOINT_ENV_VAR_NAME == "CUSTOM_VISION_TRAINING_ENDPOINT"
TRAINING_KEY_ENV_VAR_NAME == "CUSTOM_VISION_TRAINING_KEY"
CUSTOM_VISION_DETECTION_PROJECT_NAME == "PotDetection"
CUSTOM_VISION_CLASSIFICATION_PROJECT_NAME == "PotClassification"

\* The project name and domain type each client passes to
\* initialize_custom_vision_project.
ProjectName(md) ==
    IF md = "detection" THEN CUSTOM_VISION_DETECTION_PROJECT_NAME
    ELSE CUSTOM_VISION_CLASSIFICATION_PROJECT_NAME

DomainType(md) == IF md = "detection" THEN "ObjectDetection" ELSE "Classification"

\* __init__ without the reads of lines 29-30.
EnvironComplete_unchecked(env) == TRUE

\* __init__, lines 29-30: os.environ[...] raises KeyError on a missing name.
EnvironComplete(env) ==
    /\ TRAINING_ENDPOINT_ENV_VAR_NAME \in env
    /\ TRAINING_KEY_ENV_VAR_NAME \in env

Call(r, op, arg, result) == [run |-> r, op |-> op, arg |-> arg, result |-> result]

\* next(candidate for candidate in get_projects() if candidate.name == name):
\* position of the first project of that name, 0 for StopIteration.
FindProject(projects, name) ==
    LET hits == {i \in 1..Len(projects) : projects[i].name = name}
    IN  IF hits = {} THEN 0 ELSE CHOOSE i \in hits : \A j \in hits : i <= j

\* initialize_custom_vision_project: the project, the service's projects
\* afterwards and the calls made.
initialize_custom_vision_project(projects, r, project_name, domain_type) ==
    LET found   == FindProject(projects, project_name)
        listing == Call(r, "get_projects", <<>>, [i \in 1..Len(projects) |-> projects[i].name])
        created == [id |-> Len(projects) + 1, name |-> project_name, domain |-> domain_type]
    IN  IF found # 0
        THEN [project |-> projects[found], projects |-> projects, calls |-> <<listing>>]
        ELSE [project |-> created, projects |-> Append(projects, created),
              calls |-> <<listing,
                          Call(r, "get_domains", <<>>, <<>>),
                          Call(r, "create_project",
                               [name |-> project_name, domain |-> domain_type], created.id)>>]

\* The type argument of create_tag (line 49).
TagType(label) == IF label = "?" THEN "Negative" ELSE "Regular"

\* Line 48 without its test: every desired tag is created.
TagMissing_always(tgs, label) == TRUE

\* The test of line 48.
TagMissing(tgs, label) == ~DictHas(tgs, label)

RECURSIVE CreateMissingTags(_, _, _, _, _)
\* The loop over desired_tags (lines 47-49), with the dict, the service's
\* tags and the calls so far.
CreateMissingTags(desired, tgs, rtags, calls, proj) ==
    IF desired = <<>> THEN [tags |-> tgs, remote |-> rtags, calls |-> calls]
    ELSE LET label == Head(desired)
             tag   == [id |-> Len(rtags) + 1, name |-> label, type |-> TagType(label)]
         IN  IF TagMissing(tgs, label)
             THEN CreateMissingTags(Tail(desired),
                     DictSet(tgs, label, tag),
                     Append(rtags, [project |-> proj.id, id |-> tag.id,
                                    name |-> tag.name, type |-> tag.type]),
                     Append(calls, Call(calls[1].run, "create_tag",
                                        [name |-> label, type |-> tag.type], tag.id)),
                     proj)
             ELSE CreateMissingTags(Tail(desired), tgs, rtags, calls, proj)

\* populate_project_tags(trainer, project, desired_tags)
populate_project_tags(rtags, r, proj, desired_tags) ==
    LET mine(t) == t.project = proj.id
        existing == SelectSeq(rtags, mine)
        loaded == DictUpdate(<<>>, [i \in 1..Len(existing) |->
                     [k |-> existing[i].name,
                      v |-> [id |-> existing[i].id, name |-> existing[i].name,
                             type |-> existing[i].type]]])
        listing == Call(r, "get_tags", proj.id,
                        [i \in 1..Len(existing) |-> existing[i].name])
    IN  CreateMissingTags(desired_tags, loaded, rtags, <<listing>>, proj)

RECURSIVE Flatten(_)
\* Concatenation of a sequence of sequences (list.extend in a loop).
Flatten(ss) == IF ss = <<>> THEN <<>> ELSE Head(ss) \o Flatten(Tail(ss))

\* desired_tags of the two populate_tags methods.
DesiredTags(md, defs) ==
    IF md = "detection" THEN <<PotTag>>
    ELSE LET isPot(d) == d.name = PotTag
             pots == SelectSeq(defs, isPot)
         IN  Flatten([i \in 1..Len(pots) |->
                 Flatten([j \in 1..Len(pots[i].attributes) |->
                     pots[i].attributes[j].values])])

\* A batch one entry short of n.
islice_one_short(entries, done, n) ==
    SubSeq(entries, done + 1, Min(done + n - 1, Len(entries)))

\* list(islice(images_for_upload, n)) when the generator has yielded
\* `done` of `entries` so far.
islice(entries, done, n) == SubSeq(entries, done + 1, Min(done + n, Len(entries)))

\* The loop left when upload_batch returns False.
AfterUpload_stop_on_failure(ok) == IF ok THEN "stream" ELSE "done"

\* upload_dataset after upload_batch returned: the loop goes round again
\* whatever was returned.
AfterUpload(ok) == "stream"

\* ---- inputs ----

LabelDefs ==
    {<<[name |-> "pot",
        attributes |-> <<[values |-> <<"full", "empty">>],
                         [values |-> <<"full", "?">>]>>],
       [name |-> "lid", attributes |-> <<[values |-> <<"open">>]>>]>>,
     <<[name |-> "lid", attributes |-> <<[values |-> <<"open">>]>>]>>}

\* n frames "f1".."fn", each with one box of category "pot" and one
\* attribute value.
UniformDataset(n) ==
    [i \in 1..n |->
        [k |-> <<"f">> \o IntToStr(i),
         v |-> [clip |-> <<"f">>, frame |-> IntToStr(i), width |-> 640, height |-> 480,
                labels |-> <<LabelRecord("pot", "box", FALSE, 21, StateProp("full"))>>]]]

\* Dataset sizes around the multiples of the batch size, up to MaxFrames.
DatasetSizes ==
    {n \in 0..MaxFrames : n % BatchSize \in {0, 1, 6, BatchSize - 1}} \cup {MaxFrames}

OtherProject == [id |-> 1, name |-> "Other", domain |-> "Classification"]
BothProjects ==
    <<OtherProject,
      [id |-> 2, name |-> CUSTOM_VISION_DETECTION_PROJECT_NAME, domain |-> "ObjectDetection"],
      [id |-> 3, name |-> CUSTOM_VISION_CLASSIFICATION_PROJECT_NAME, domain |-> "Classification"]>>

\* States of the training service before the first run.
RemoteStates ==
    {[projects |-> <<OtherProject>>,
      tags |-> <<[project |-> 1, id |-> 1, name |-> "pot", type |-> "Regular"]>>],
     [projects |-> BothProjects, tags |-> <<>>],
     [projects |-> BothProjects,
      tags |-> <<[project |-> 2, id |-> 1, name |-> "lid", type |-> "Regular"],
                 [project |-> 3, id |-> 2, name |-> "full", type |-> "Regular"],
                 [project |-> 3, id |-> 3, name |-> "?", type |-> "Negative"]>>]}

UInit ==
    /\ upc = "init"
    /\ run = 1
    /\ mode \in {"detection", "classification"}
    /\ environ \in SUBSET {TRAINING_ENDPOINT_ENV_VAR_NAME, TRAINING_KEY_ENV_VAR_NAME}
    /\ labels_defs \in LabelDefs
    /\ labels \in {UniformDataset(n) : n \in DatasetSizes}
    /\ \E remote \in RemoteStates :
          /\ remote_projects = remote.projects
          /\ remote_tags = remote.tags
    /\ trainer_calls = <<>>
    /\ project = <<>>
    /\ tags = <<>>
    /\ yielded = 0
    /\ image_batch = <<>>
    /\ uploaded = <<>>

\* main line 251: the client's __init__ (lines 25-30, then 125 or 166).
CreateClient ==
    /\ upc = "init"
    /\ IF ~EnvironComplete(environ)
       THEN /\ upc' = "failed"
            /\ UNCHANGED <<remote_projects, trainer_calls, project>>
       ELSE LET r == initialize_custom_vision_project(
                        remote_projects, run, ProjectName(mode), DomainType(mode))
            IN  /\ project' = <<r.project>>
                /\ remote_projects' = r.projects
                /\ trainer_calls' = trainer_calls \o r.calls
                /\ upc' = "tags"
    /\ UNCHANGED <<run, mode, environ, labels_defs, labels, remote_tags, tags,
                   yielded, image_batch, uploaded>>

\* upload_dataset line 96: load_label_defs -> populate_tags.
LoadLabelDefs ==
    /\ upc = "tags"
    /\ LET r == populate_project_tags(remote_tags, run, project[1],
                                      DesiredTags(mode, labels_defs))
       IN  /\ tags' = r.tags
           /\ remote_tags' = r.remote
           /\ trainer_calls' = trainer_calls \o r.calls
    /\ upc' = "stream"
    /\ UNCHANGED <<run, mode, environ, labels_defs, labels, remote_projects,
                   project, yielded, image_batch, uploaded>>

\* Lines 110-114: the next batch from the generator.  A generator that
\* raises before the batch is full ends the run, and the entries it had
\* yielded into that batch are dropped with it.
TakeBatch ==
    /\ upc = "stream"
    /\ LET g == get_images_for_upload(mode, labels, tags)
       IN  IF g.raised /\ Len(g.entries) - yielded < BatchSize
           THEN /\ upc' = "crashed"
                /\ yielded' = Len(g.entries)
                /\ UNCHANGED image_batch
           ELSE LET batch == islice(g.entries, yielded, BatchSize)
                IN  /\ image_batch' = batch
                    /\ yielded' = yielded + Len(batch)
                    /\ upc' = IF Len(batch) = 0 THEN "done" ELSE "upload"
    /\ UNCHANGED <<run, mode, environ, labels_defs, labels, remote_projects,
                   remote_tags, trainer_calls, project, tags, uploaded>>

\* Line 117: upload_batch(self.trainer, self.project, image_batch); the
\* service answers with is_batch_successful either way.
UploadBatch ==
    /\ upc = "upload"
    /\ IF Len(image_batch) > 0
       THEN \E is_batch_successful \in BOOLEAN :
               /\ trainer_calls' = Append(trainer_calls,
                     Call(run, "create_images_from_files", image_batch,
                          is_batch_successful))
               /\ uploaded' = Append(uploaded, is_batch_successful)
               /\ upc' = AfterUpload(is_batch_successful)
       ELSE /\ uploaded' = Append(uploaded, TRUE)
            /\ upc' = AfterUpload(TRUE)
            /\ UNCHANGED trainer_calls
    /\ UNCHANGED <<run, mode, environ, labels_defs, labels, remote_projects,
                   remote_tags, project, tags, yielded, image_batch>>

\* The uploader is invoked again with the same arguments, against the
\* service as the previous run left it; the new process has a new client.
RunAgain ==
    /\ upc \in {"done", "crashed"}
    /\ run < MaxRuns
    /\ run' = run + 1
    /\ upc' = "init"
    /\ project' = <<>>
    /\ tags' = <<>>
    /\ yielded' = 0
    /\ image_batch' = <<>>
    /\ uploaded' = <<>>
    /\ trainer_calls' = <<>>
    /\ UNCHANGED <<mode, environ, labels_defs, labels, remote_projects,
                   remote_tags>>

-----------------------------------------------------------------------------
(* Specifications: one program per specification; the state of the other   *)
(* programs stays idle.                                                    *)

XIdle ==
    /\ xpc = "idle"
    /\ blob_uri_path = <<>>
    /\ input_blob_name = <<>>
    /\ tool_exit = 0
    /\ frames_folder = <<>>
    /\ zipped_frames = <<>>
    /\ blob_store = {}
    /\ blob_uploads = <<>>

DIdle ==
    /\ dpc = "idle"
    /\ clip_files = <<>>
    /\ max_clip_frames = 0
    /\ clip_index = 0
    /\ current_clip_labels = <<>>
    /\ current_clip_labels_filtered = <<>>
    /\ output_archive = <<>>
    /\ clip_batch_labels = <<>>
    /\ labels_json = <<>>

UIdle ==
    /\ upc = "idle"
    /\ run = 0
    /\ mode = "detection"
    /\ environ = {}
    /\ labels_defs = <<>>
    /\ labels = <<>>
    /\ remote_projects = <<>>
    /\ remote_tags = <<>>
    /\ trainer_calls = <<>>
    /\ project = <<>>
    /\ tags = <<>>
    /\ yielded = 0
    /\ image_batch = <<>>
    /\ uploaded = <<>>

GIdle ==
    /\ gpc = "idle"
    /\ g_mode = "detection"
    /\ g_labels = <<>>
    /\ g_tags = <<>>
    /\ g_file = 0
    /\ g_boxes = <<>>
    /\ g_entries = <<>>

\* One invocation of the frame-extraction function.
ExtractInit == XInit /\ DIdle /\ UIdle /\ GIdle
ExtractNext ==
    \/ ResolveBlob /\ UNCHANGED <<dvars, uvars, gvars>>
    \/ ExtractFrames /\ UNCHANGED <<dvars, uvars, gvars>>
    \/ ZipFrames /\ UNCHANGED <<dvars, uvars, gvars>>
    \/ UploadArchive /\ UNCHANGED <<dvars, uvars, gvars>>
SpecExtract == ExtractInit /\ [][ExtractNext]_vars

\* One run of process_labels_batch.
DatasetInit == DInit /\ XIdle /\ UIdle /\ GIdle
DatasetNext ==
    \/ GetClipLabels /\ UNCHANGED <<xvars, uvars, gvars>>
    \/ FilterLabels /\ UNCHANGED <<xvars, uvars, gvars>>
    \/ CopyLabelledFrames /\ UNCHANGED <<xvars, uvars, gvars>>
    \/ StoreLabels /\ UNCHANGED <<xvars, uvars, gvars>>
SpecDataset == DatasetInit /\ [][DatasetNext]_vars

\* get_images_for_upload on a dataset, frame by frame.
EntriesInit == GInit /\ XIdle /\ DIdle /\ UIdle
EntriesNext ==
    \/ DetectionNextFrame /\ UNCHANGED <<xvars, dvars, uvars>>
    \/ ClassificationNextFrame /\ UNCHANGED <<xvars, dvars, uvars>>
    \/ GeneratorExhausted /\ UNCHANGED <<xvars, dvars, uvars>>
SpecEntries == EntriesInit /\ [][EntriesNext]_vars

\* Runs of the uploader against one training service.
UploadInit == UInit /\ XIdle /\ DIdle /\ GIdle
UploadNext ==
    \/ CreateClient /\ UNCHANGED <<xvars, dvars, gvars>>
    \/ LoadLabelDefs /\ UNCHANGED <<xvars, dvars, gvars>>
    \/ TakeBatch /\ UNCHANGED <<xvars, dvars, gvars>>
    \/ UploadBatch /\ UNCHANGED <<xvars, dvars, gvars>>
    \/ RunAgain /\ UNCHANGED <<xvars, dvars, gvars>>
SpecUpload == UploadInit /\ [][UploadNext]_vars

-----------------------------------------------------------------------------
(* Properties of the frame-extraction function (SpecExtract)               *)

\* The name has an extension at position i: the last dot of the last path
\* component, preceded in that component by a character that is no dot.
ExtensionAt(name, i) ==
    /\ name[i] = "."
    /\ \A j \in (i + 1)..Len(name) : name[j] \notin {".", "/"}
    /\ \E j \in 1..(i - 1) :
          /\ name[j] \notin {".", "/"}
          /\ \A m \in j..i : name[m] # "/"

\* `out` is `name` with its extension, if it has one, replaced by ".zip".
ExtensionReplaced(name, out) ==
    IF \E i \in 1..Len(name) : ExtensionAt(name, i)
    THEN \E i \in 1..Len(name) :
            ExtensionAt(name, i) /\ out = SubSeq(name, 1, i - 1) \o StrZip
    ELSE out = name \o StrZip

ZipFramesReturned ==
    xpc \in {"upload", "done", "raised no frame files", "raised ResourceExistsError"}

\* C9: when the tool leaves no frame file the invocation fails and nothing
\* is uploaded; otherwise the invocation does not fail and ends after
\* exactly one upload, of an archive holding every frame, to container
\* "extractedframes" under the source blob's name with its extension
\* replaced by ".zip", with overwrite set.  The tool's exit status is not
\* consulted: all of this holds for either status.
C9_ZeroFramesFatalElseOneUpload ==
    /\ Len(blob_uploads) <= 1
    /\ blob_uploads # <<>> => xpc = "done"
    /\ ZipFramesReturned =>
          IF Len(frames_folder) = 0
          THEN xpc = "raised no frame files" /\ blob_uploads = <<>>
          ELSE xpc \in {"upload", "done"}
    /\ xpc = "done" =>
          /\ Len(blob_uploads) = 1
          /\ blob_uploads[1].container = OutputContainer
          /\ blob_uploads[1].overwrite
          /\ ExtensionReplaced(input_blob_name, blob_uploads[1].blob)
          /\ blob_uploads[1].data = frames_folder
          /\ blob_uploads[1].blob \in blob_store

\* A video "v.v" whose tool run returned a failure status but left two
\* frames: uploaded as "v.zip" over the object already there.
C9_Witness ==
    /\ xpc = "done"
    /\ tool_exit = 1
    /\ Len(frames_folder) = 2
    /\ input_blob_name = <<"v", ".", "v">>
    /\ blob_uploads[1].blob = <<"v">> \o StrZip
    /\ Cardinality(blob_store) > 1

-----------------------------------------------------------------------------
(* Properties of process_labels_batch (SpecDataset)                        *)

ArchiveNames == {output_archive[i].arcname : i \in 1..Len(output_archive)}

\* The image element `image` carries at least one shape.
Labelled(image) == Len(image.shapes) > 0

\* Number of labelled frames (distinct names) of an XML file.
LabelledFrames(xml) == {xml[i].name : i \in {j \in 1..Len(xml) : Labelled(xml[j])}}

\* C3: once process_labels_batch has completed, the image entry names of the
\* output archive are exactly the keys of the stored labels.json; every
\* image comes from a labelled frame of its clip; and with sampling enabled
\* no clip contributes more images than the cap.
C3_ArchiveMatchesLabelsJson ==
    dpc = "done" =>
        /\ ArchiveNames = DictKeySet(labels_json[1])
        /\ \A i \in 1..Len(output_archive) :
              \E c \in 1..Len(clip_files) :
                 /\ clip_files[c].name = output_archive[i].clip
                 /\ output_archive[i].file \in LabelledFrames(clip_files[c].xml)
        /\ max_clip_frames > 0 =>
              \A c \in 1..Len(clip_files) :
                 Cardinality({i \in 1..Len(output_archive) :
                                output_archive[i].clip = clip_files[c].name})
                    <= max_clip_frames

\* A completed run with sampling at work (a clip with two labelled frames
\* under a cap of one) and a second clip with an unlabelled frame.
C3_Witness ==
    /\ dpc = "done"
    /\ max_clip_frames = 1
    /\ Len(clip_files) = 2
    /\ Cardinality(LabelledFrames(clip_files[1].xml)) = 2
    /\ \E i \in 1..Len(clip_files[2].xml) : ~Labelled(clip_files[2].xml[i])
    /\ Len(output_archive) = 2

\* The dict get_single_clip_labels returned in the current iteration.
Extracted ==
    get_single_clip_labels(ClipName(clip_files[clip_index].name),
                           clip_files[clip_index].xml).labels

\* C4: filter_labels on n frames with cap c returns min(n, c) entries when
\* c > 0 and the input unchanged when c <= 0; every returned key is an
\* input key and maps to the same Frame Record.
C4_FilterLabelsSize ==
    dpc = "copy" =>
        /\ IF max_clip_frames > 0
           THEN Len(current_clip_labels_filtered) = Min(Len(Extracted), max_clip_frames)
           ELSE current_clip_labels_filtered = Extracted
        /\ DictKeySet(current_clip_labels_filtered) \subseteq DictKeySet(Extracted)
        /\ \A i \in 1..Len(current_clip_labels_filtered) :
              current_clip_labels_filtered[i].v
                 = DictGet(Extracted, current_clip_labels_filtered[i].k)

\* Two frames cut down to one.
C4_Witness ==
    /\ dpc = "copy"
    /\ max_clip_frames = 1
    /\ Len(Extracted) = 2
    /\ Len(current_clip_labels_filtered) = 1

\* C5: two distinct (clip, frame) pairs never get the same identifier: image
\* entries of the output archive that come from different frames have
\* different names.
C5_IdentifierUnique ==
    \A i, j \in 1..Len(output_archive) :
        <<output_archive[i].clip, output_archive[i].file>>
            # <<output_archive[j].clip, output_archive[j].file>>
        => output_archive[i].arcname # output_archive[j].arcname

HasNonBoxShape(xml) ==
    \E i \in 1..Len(xml) : \E j \in 1..Len(xml[i].shapes) : xml[i].shapes[j].tag # "box"

AllLabelsBoxes(d) ==
    \A i \in 1..Len(d) : \A j \in 1..Len(d[i].v.labels) :
        /\ d[i].v.labels[j].type = "box"
        /\ d[i].v.labels[j].points # <<>>

\* C8: a shape that is no box makes the extraction of its clip abort on the
\* assertion, in the iteration that reads it; every Label Record of every
\* mapping has type box with points; and after the abort no labels.json is
\* written.
C8_NonBoxShapeAborts ==
    /\ \A c \in 1..clip_index :
          HasNonBoxShape(clip_files[c].xml)
             => dpc = "raised AssertionError" /\ clip_index = c
    /\ AllLabelsBoxes(current_clip_labels)
    /\ AllLabelsBoxes(current_clip_labels_filtered)
    /\ AllLabelsBoxes(clip_batch_labels)
    /\ labels_json # <<>> => AllLabelsBoxes(labels_json[1])
    /\ dpc = "raised AssertionError" => labels_json = <<>>

\* The second clip holds a polygon: the run aborts after the first clip's
\* frame went into the archive, and no labels.json exists.
C8_Witness ==
    /\ dpc = "raised AssertionError"
    /\ clip_index = 2
    /\ HasNonBoxShape(clip_files[2].xml)
    /\ output_archive # <<>>
    /\ labels_json = <<>>

-----------------------------------------------------------------------------
(* Properties of get_images_for_upload (SpecEntries)                       *)

\* The frame processed last, and the arguments its boxes were built with.
LastFrame == g_labels[g_file].v
AllowedTags == IF g_mode = "detection" THEN DictKeySet(g_tags) ELSE {PotTag}
Normalize == g_mode = "detection"

\* The boxes of the labels `selected` of the frame `image_labels`, in order.
BoxesOfLabels(image_labels, selected) ==
    [i \in 1..Len(selected) |-> BoxOf(image_labels, selected[i], Normalize)]

\* C7 as claimed: the boxes returned for a frame are those of its labels of
\* an allowed category that have type box and are not occluded.
C7_OccludedAndNonBoxExcluded ==
    g_file > 0 =>
        LET keep(l) == l.label \in AllowedTags /\ l.type = "box" /\ ~l.occluded
        IN  g_boxes = BoxesOfLabels(LastFrame, SelectSeq(LastFrame.labels, keep))

\* C7, amended: the boxes returned for a frame are those of its labels of an
\* allowed category that have type box, occluded or not, in label order; no
\* box comes from a label of another type.
C7_NonBoxExcludedOccludedKept ==
    g_file > 0 =>
        LET keep(l) == l.label \in AllowedTags /\ l.type = "box"
        IN  g_boxes = BoxesOfLabels(LastFrame, SelectSeq(LastFrame.labels, keep))

\* A frame with an occluded box and a polygon of category "pot": one box,
\* the occluded one.
C7_Witness ==
    /\ g_file > 0
    /\ Len(LastFrame.labels) = 2
    /\ LastFrame.labels[1].occluded /\ LastFrame.labels[1].type = "box"
    /\ LastFrame.labels[1].label = PotTag
    /\ LastFrame.labels[2].type = "polygon" /\ LastFrame.labels[2].label = PotTag
    /\ Len(g_boxes) = 1
    /\ g_boxes[1].properties = DictValues(LastFrame.labels[1].properties)

\* Labels of a Frame Record that are boxes of category "pot", in order.
PotBoxes(image_labels) ==
    LET isPotBox(l) == l.label = PotTag /\ l.type = "box"
    IN  SelectSeq(image_labels.labels, isPotBox)

\* C10: when the classification generator has ended, every "pot" box with at
\* least one attribute value has exactly one entry, named
\* "{frame}_{index}" by its position among the frame's "pot" boxes and
\* tagged with the ids of the tags its attribute values name; a "pot" box
\* without attribute values has none; and entry names are pairwise distinct.
C10_OneEntryPerAttributedPotBox ==
    (g_mode = "classification" /\ gpc \in {"done", "raised"}) =>
        /\ \A f \in 1..Len(g_labels) :
              LET pots == PotBoxes(g_labels[f].v)
              IN  \A b \in 1..Len(pots) :
                     LET values == DictValues(pots[b].properties)
                         named  == {e \in 1..Len(g_entries) :
                                      g_entries[e].name
                                         = g_labels[f].k \o <<"_">> \o IntToStr(b - 1)}
                     IN  IF Len(values) = 0 THEN named = {}
                         ELSE /\ Cardinality(named) = 1
                              /\ \A e \in named :
                                    /\ Len(g_entries[e].tag_ids) = Len(values)
                                    /\ \A v \in 1..Len(values) :
                                          /\ DictHas(g_tags, values[v])
                                          /\ g_entries[e].tag_ids[v]
                                                = DictGet(g_tags, values[v]).id
        /\ \A e1, e2 \in 1..Len(g_entries) :
              e1 # e2 => g_entries[e1].name # g_entries[e2].name

\* Labels of a Frame Record that are boxes of a category that is a key of
\* the tag map, in order.
TaggedBoxes(image_labels, tgs) ==
    LET isTaggedBox(l) == l.type = "box" /\ DictHas(tgs, l.label)
    IN  SelectSeq(image_labels.labels, isTaggedBox)

\* The entry the claim expects of frame number f of the dataset: none for a
\* frame without a tagged box, else one named after the frame with one
\* region per tagged box, in label order, carrying the tag id of the box's
\* category and its coordinates divided by the image size.
ExpectedDetectionEntries(f) ==
    LET image_labels == g_labels[f].v
        tagged == TaggedBoxes(image_labels, g_tags)
        region(l) ==
            [tag_id |-> DictGet(g_tags, l.label).id,
             left   |-> [num |-> l.points[1].x, den |-> 2 * image_labels.width],
             top    |-> [num |-> l.points[1].y, den |-> 2 * image_labels.height],
             width  |-> [num |-> l.points[1].width, den |-> 2 * image_labels.width],
             height |-> [num |-> l.points[1].height, den |-> 2 * image_labels.height]]
    IN  IF Len(tagged) = 0 THEN <<>>
        ELSE <<[name |-> g_labels[f].k,
                regions |-> [i \in 1..Len(tagged) |-> region(tagged[i])]]>>

\* C11: in detection mode the generator never raises on a tag lookup, and
\* after f frames it has yielded exactly the expected entries of frames
\* 1..f in frame order: one entry for each frame with at least one box
\* label whose category is a key of the tag map, with one region per such
\* label, and none for any other frame; so no entry has zero regions.
C11_DetectionEntryIffTaggedBox ==
    g_mode = "detection" =>
        /\ gpc # "raised"
        /\ LET expected == ConcatRange(
                    [f \in 1..g_file |-> ExpectedDetectionEntries(f)], 1, g_file)
           IN  /\ Len(g_entries) = Len(expected)
               /\ \A e \in 1..Len(expected) :
                     /\ g_entries[e].name = expected[e].name
                     /\ g_entries[e].regions = expected[e].regions
        /\ \A e \in 1..Len(g_entries) : Len(g_entries[e].regions) > 0

\* A finished detection run over two frames with the tags "lid" and "pot":
\* the first frame has a "lid" box and an occluded "pot" box and yields one
\* entry with the two regions in label order; the second has only a
\* polygon and yields nothing.
C11_Witness ==
    /\ g_mode = "detection"
    /\ gpc = "done"
    /\ DictKeys(g_tags) = <<"lid", "pot">>
    /\ Len(g_labels) = 2
    /\ Len(g_labels[1].v.labels) = 2
    /\ g_labels[1].v.labels[1].label = "lid" /\ g_labels[1].v.labels[1].type = "box"
    /\ g_labels[1].v.labels[2].label = PotTag /\ g_labels[1].v.labels[2].type = "box"
    /\ g_labels[1].v.labels[2].occluded
    /\ Len(g_labels[2].v.labels) = 1
    /\ g_labels[2].v.labels[1].type = "polygon"
    /\ Len(g_entries) = 1
    /\ g_entries[1].name = g_labels[1].k
    /\ Len(g_entries[1].regions) = 2
    /\ g_entries[1].regions[1].tag_id = DictGet(g_tags, "lid").id
    /\ g_entries[1].regions[2].tag_id = DictGet(g_tags, PotTag).id

-----------------------------------------------------------------------------
(* Properties of the upload run (SpecUpload)                               *)

\* The create_images_from_files calls of the current run, in order.
SentBatches ==
    LET mine(c) == c.op = "create_images_from_files" /\ c.run = run
    IN  SelectSeq(trainer_calls, mine)

\* Everything the generator of the current run yields.
Generated == get_images_for_upload(mode, labels, tags).entries

CeilDiv(a, b) == (a + b - 1) \div b

\* The i-th chunk of BatchSize entries of the sequence gen.
ExpectedBatch(gen, i) ==
    SubSeq(gen, (i - 1) * BatchSize + 1, Min(i * BatchSize, Len(gen)))

\* C1: in a completed upload_dataset whose generator yielded k entries,
\* create_images_from_files was called ceil(k / 64) times, every call with
\* 1..64 entries and all but the last with 64, and the calls' entries
\* concatenated in call order are the generated sequence.
C1_BatchesPartitionEntries ==
    upc = "done" =>
        LET sent == SentBatches
            gen  == Generated
            k    == Len(gen)
        IN  /\ Len(sent) = CeilDiv(k, 64)
            /\ \A i \in 1..Len(sent) :
                  /\ Len(sent[i].arg) >= 1
                  /\ Len(sent[i].arg) <= 64
                  /\ i < Len(sent) => Len(sent[i].arg) = 64
            /\ ConcatRange([i \in 1..Len(sent) |-> sent[i].arg], 1, Len(sent)) = gen

\* 70 frames: two calls, of 64 and 6 entries.
C1_Witness ==
    /\ upc = "done"
    /\ Len(labels) = 70
    /\ Len(SentBatches) = 2
    /\ Len(SentBatches[1].arg) = 64
    /\ Len(SentBatches[2].arg) = 6

\* C2: upload_batch returns the batch's is_batch_successful; a failed batch
\* is followed by the next chunk of the generated sequence, never by itself
\* again; and a completed run has sent every chunk exactly once whatever the
\* results were.
C2_FailedBatchDoesNotStopRun ==
    LET sent == SentBatches
        gen  == IF sent = <<>> /\ upc # "done" THEN <<>> ELSE Generated
    IN  /\ upc \in {"stream", "done"} =>
              uploaded = [i \in 1..Len(sent) |-> sent[i].result]
        /\ \A i \in 1..Len(sent) : sent[i].arg = ExpectedBatch(gen, i)
        /\ upc = "done" =>
              \A i \in 1..CeilDiv(Len(gen), BatchSize) :
                 Cardinality({j \in 1..Len(sent) : sent[j].arg = ExpectedBatch(gen, i)}) = 1

\* A completed run of three batches whose first two failed.
C2_Witness ==
    /\ upc = "done"
    /\ uploaded = <<FALSE, FALSE, TRUE>>
    /\ Len(SentBatches) = 3

\* The last call of the given operation of run r before position j of the
\* log (0 when there is none).
LastCallBefore(op, r, j) ==
    LET hits == {i \in 1..(j - 1) : trainer_calls[i].op = op /\ trainer_calls[i].run = r}
    IN  IF hits = {} THEN 0 ELSE CHOOSE i \in hits : \A h \in hits : h <= i

\* C6: create_project is called only after a get_projects listing without
\* the fixed name; create_tag only for a desired name that is not in the
\* run's get_tags listing, at most once per name, with type Negative for "?"
\* and Regular otherwise; and a run after the first creates neither.
C6_SetupIdempotent ==
    \A j \in 1..Len(trainer_calls) :
        LET c == trainer_calls[j]
        IN  /\ c.op = "create_project" =>
                  /\ c.arg.name = ProjectName(mode)
                  /\ LastCallBefore("get_projects", c.run, j) # 0
                  /\ c.arg.name \notin
                        Range(trainer_calls[LastCallBefore("get_projects", c.run, j)].result)
            /\ c.op = "create_tag" =>
                  /\ c.arg.name \in Range(DesiredTags(mode, labels_defs))
                  /\ LastCallBefore("get_tags", c.run, j) # 0
                  /\ c.arg.name \notin
                        Range(trainer_calls[LastCallBefore("get_tags", c.run, j)].result)
                  /\ \A i \in 1..(j - 1) :
                        trainer_calls[i].op = "create_tag"
                           => trainer_calls[i].arg.name # c.arg.name
                  /\ c.arg.type = IF c.arg.name = "?" THEN "Negative" ELSE "Regular"
            /\ c.op \in {"create_project", "create_tag"} => c.run = 1

\* A first classification run created the project (second on the service)
\* and the tags "full", "empty" and "?" (Negative); the second run has
\* finished its setup with the two listing calls alone.
C6_Witness ==
    /\ run = 2
    /\ upc = "stream"
    /\ Len(remote_projects) = 2
    /\ remote_projects[2].name = CUSTOM_VISION_CLASSIFICATION_PROJECT_NAME
    /\ [i \in 1..Len(remote_tags) |-> <<remote_tags[i].project, remote_tags[i].name,
                                         remote_tags[i].type>>]
          = <<<<1, "pot", "Regular">>, <<2, "full", "Regular">>,
              <<2, "empty", "Regular">>, <<2, "?", "Negative">>>>
    /\ [j \in 1..Len(trainer_calls) |-> trainer_calls[j].op] = <<"get_projects", "get_tags">>
    /\ DictKeySet(tags) = {"full", "empty", "?"}

\* The stage of the run a call on the training service belongs to:
\* 1 ensure project, 2 ensure tags, 3 stream batches.
StageOf(op) ==
    CASE op \in {"get_projects", "get_domains", "create_project"} -> 1
      [] op \in {"get_tags", "create_tag"} -> 2
      [] op = "create_images_from_files" -> 3

\* The project of the run is resolved: the client holds a project of the
\* run's name that the service has.
ProjectResolved ==
    /\ project # <<>>
    /\ project[1].name = ProjectName(mode)
    /\ \E i \in 1..Len(remote_projects) : remote_projects[i] = project[1]

\* Every desired tag of the run is in the tag map, with an id the service
\* has for that name in the run's project.
DesiredTagsExist ==
    \A t \in Range(DesiredTags(mode, labels_defs)) :
        /\ DictHas(tags, t)
        /\ \E i \in 1..Len(remote_tags) :
              /\ remote_tags[i].project = project[1].id
              /\ remote_tags[i].name = t
              /\ remote_tags[i].id = DictGet(tags, t).id

\* C12: the calls of a run on the training service are in stage order
\* (project, then tags, then batches), so no project or tag is created
\* after a batch was sent; a batch is sent, and the run streams or is done,
\* only with the project resolved and every desired tag in the tag map; and
\* a run with the endpoint or the key variable missing makes no remote call
\* and goes from init to failed only.
C12_RunFollowsStageOrder ==
    /\ \A i, j \in 1..Len(trainer_calls) :
          i < j => StageOf(trainer_calls[i].op) <= StageOf(trainer_calls[j].op)
    /\ (\/ \E j \in 1..Len(trainer_calls) : StageOf(trainer_calls[j].op) = 3
        \/ upc \in {"stream", "upload", "done", "crashed"})
          => /\ ProjectResolved
             /\ DesiredTagsExist
             /\ \E j \in 1..Len(trainer_calls) : trainer_calls[j].op = "get_projects"
             /\ \E j \in 1..Len(trainer_calls) : trainer_calls[j].op = "get_tags"
    /\ upc = "tags"
          => /\ ProjectResolved
             /\ \A j \in 1..Len(trainer_calls) : StageOf(trainer_calls[j].op) = 1
    /\ upc = "init" => trainer_calls = <<>>
    /\ ~({TRAINING_ENDPOINT_ENV_VAR_NAME, TRAINING_KEY_ENV_VAR_NAME} \subseteq environ)
          => /\ trainer_calls = <<>>
             /\ upc \in {"init", "failed"}
             /\ project = <<>>
             /\ tags = <<>>

\* A finished detection run that had to create its project and its tag
\* and sent three batches: the calls are in stage order.
C12_Witness ==
    /\ upc = "done"
    /\ run = 1
    /\ mode = "detection"
    /\ environ = {TRAINING_ENDPOINT_ENV_VAR_NAME, TRAINING_KEY_ENV_VAR_NAME}
    /\ [j \in 1..Len(trainer_calls) |-> trainer_calls[j].op]
          = <<"get_projects", "get_domains", "create_project", "get_tags", "create_tag",
              "create_images_from_files", "create_images_from_files",
              "create_images_from_files">>
    /\ DictKeys(tags) = <<PotTag>>

=============================================================================
